---- MODULE Spec2Model ----
(***************************************************************************)
(* Model of the controller's runtime core: the Strategy network state      *)
(* (partitions, communication matrix, memoisation), the packet dispatch    *)
(* path, the gRPC packet server, the iteration controller with its timer   *)
(* and its lock, and the InterceptorManager.                               *)
(***************************************************************************)
EXTENDS Integers, Sequences, FiniteSets, TLC

(***************************************************************************)
(* Bounds of the model.                                                    *)
(***************************************************************************)
\* Largest validator list handed to update_network.
MaxNodes == 3
\* Largest number of rows the packet server's csv writer is followed for.
MaxRows == 2
MaxReceivers == 3
MaxIterations == 2
\* The interceptors that a run of the InterceptorManager alone starts.
MaxStarts == 3

(***************************************************************************)
(* Program constants and test fixtures.                                    *)
(***************************************************************************)
\* MAX_U32 = 2**32 - 1, the drop action. TLC's integers are 32-bit signed, so
\* the sentinel is represented by the largest integer TLC has; the model only
\* compares actions for equality and order, and every other action is below it.
MAX_U32 == 2147483647
\* node_k of the unit tests: peer port 10 + k, rpc port 40 + k.
PeerBase == 10
RpcBase == 40
\* A delay in milliseconds, the action of the unit tests.
DelayMs == 42

PeerPort(k) == PeerBase + k
RpcPort(k) == RpcBase + k

\* The validator lists given to update_network: the first n nodes in order
\* for the smaller sizes, and every node, rotated by one (so that a node's
\* index is not its number), for the largest.
Ident(n) == [k \in 1 .. n |-> k - 1]
Rot(n) == [k \in 1 .. n |-> k % n]
NodeLists == {Ident(n) : n \in 2 .. (MaxNodes - 1)} \cup {Rot(MaxNodes)}

\* Payloads; "" is the empty bytes object b"".
Data == {"a", "b"}
Mutated == "m"
\* The empty payload, which a fresh entry of the memoisation holds: b"".
Empty == ""

\* What handle_packet may decide for a payload: forward it as it is, delay a
\* mutated payload, or drop it.
Decisions(d) == {<<d, 0>>, <<Mutated, DelayMs>>, <<d, MAX_U32>>}

VARIABLES
    validator_node_list,         \* Strategy.validator_node_list
    node_amount,                 \* Strategy.node_amount
    network_partitions,          \* Strategy.network_partitions
    port_dict,                   \* Strategy.port_dict
    communication_matrix,        \* Strategy.communication_matrix
    auto_partition,              \* Strategy.auto_partition
    auto_parse_identical,        \* constructor option
    auto_parse_subsets,          \* constructor option
    prev_message_action_matrix,  \* per (src, dst): the last message and its decision
    subsets_dict,                \* per sender: its subsets of receivers
    keep_log,                    \* PacketService(keep_log)
    execution_log,               \* the rows PacketService.writer has written
    cur_iteration,               \* TimeBasedIteration.cur_iteration
    max_ledger_seq,              \* TimeBasedIteration._max_ledger_seq
    ledger_timeout,              \* TimeBasedIteration.ledger_timeout
    validator_nodes,             \* len(_validator_nodes), 0 for None
    ledger_validation_map,       \* node index -> seq
    timer,                       \* TimeBasedIteration._timer
    orphans,                     \* armed timers that _timer no longer refers to
    lock,                        \* the worker that holds _lock, 0 for none
    spec_checker,                \* _spec_checker and _log_dir are set
    server,                      \* the gRPC server is running
    process,                     \* InterceptorManager.process
    alive,                       \* the interceptor subprocesses that run
    containers,                  \* the validator containers run
    result_logger,               \* the iteration of the current result logger
    logging,                     \* a LogLedgerResult thread runs
    workers,                     \* the RPC workers inside on_status_change
    runners,                     \* the timer threads inside _timeout_reached
    advanced,                    \* per iteration: the advances made for it
    started,                     \* per iteration: the interceptors started for it
    spec_checks,                 \* per iteration: the spec checks run over it
    handlers,                    \* the RPC workers inside process_packet
    last                         \* the last call made and its outcome

\* The state of the network that update_network installs.
netvars == <<validator_node_list, node_amount, network_partitions, port_dict,
             communication_matrix>>
\* The constructor options.
optvars == <<auto_partition, auto_parse_identical, auto_parse_subsets, keep_log>>
\* The memoisation state.
memovars == <<prev_message_action_matrix, subsets_dict>>
\* The iteration controller and its threads.
itervars == <<cur_iteration, max_ledger_seq, ledger_timeout, validator_nodes,
              ledger_validation_map, timer, orphans, lock, spec_checker,
              server, process, alive, containers, result_logger, logging,
              workers, runners, advanced, started, spec_checks>>
\* The packets that are being processed.
packetvars == <<handlers>>
vars == <<validator_node_list, node_amount, network_partitions, port_dict,
          communication_matrix, auto_partition, auto_parse_identical,
          auto_parse_subsets, prev_message_action_matrix, subsets_dict,
          keep_log, execution_log, cur_iteration, max_ledger_seq, ledger_timeout,
          validator_nodes, ledger_validation_map, timer, orphans, lock,
          spec_checker, server, process, alive, containers, result_logger,
          logging, workers, runners, advanced, started, spec_checks, handlers,
          last>>

(***************************************************************************)
(* Helpers.                                                                *)
(***************************************************************************)
Range(s) == {s[k] : k \in DOMAIN s}

Indices == 0 .. (node_amount - 1)

RECURSIVE Flatten(_)
Flatten(ll) == IF ll = << >> THEN << >> ELSE Head(ll) \o Flatten(Tail(ll))

\* The record of a call: the operation, the arguments the claims need, the
\* exception raised ("none" when it returned), the value returned, and what
\* the concrete handle_packet did (whether it was invoked, and its decision).
NotInvoked == [invoked |-> FALSE, raised |-> FALSE, data |-> "", action |-> -1]
Raised == [invoked |-> TRUE, raised |-> TRUE, data |-> "", action |-> -1]
Decided(out) == [invoked |-> TRUE, raised |-> FALSE, data |-> out[1], action |-> out[2]]

Call(op, args, err, ret) ==
    [op |-> op, args |-> args, err |-> err, ret |-> ret, handled |-> NotInvoked]

CallHandled(op, args, err, ret, handled) ==
    [op |-> op, args |-> args, err |-> err, ret |-> ret, handled |-> handled]

(***************************************************************************)
(* Strategy.update_network                                                 *)
(***************************************************************************)
\* The identifier a node is installed under.
NodePort(k) == RpcPort(k)

\* A matrix of the right size left as it is.
UpdatedMatrixKept(n) ==
    IF DOMAIN communication_matrix = 0 .. (n - 1) /\ n > 0
    THEN communication_matrix
    ELSE [i \in 0 .. (n - 1) |-> [j \in 0 .. (n - 1) |-> TRUE]]

UpdatedMatrix(n) == [i \in 0 .. (n - 1) |-> [j \in 0 .. (n - 1) |-> TRUE]]

UpdatedPortDict(ports) ==
    [p \in Range(ports) |->
        (CHOOSE k \in DOMAIN ports :
            ports[k] = p /\ \A m \in DOMAIN ports : ports[m] = p => m <= k) - 1]

\* The memoisation state update_network installs: every entry
\* {initial: b"", final: b"", action: -1} and every node's subsets [].
InitialEntry == [initial_message |-> Empty, final_message |-> Empty, action |-> -1]

UpdatedPrevMatrix(n) ==
    [i \in 0 .. (n - 1) |-> [j \in 0 .. (n - 1) |-> InitialEntry]]

NoSubsets == [nested |-> FALSE, items |-> << >>]

UpdatedSubsets(n) == [i \in 0 .. (n - 1) |-> NoSubsets]

UpdateNetwork(nodes) ==
    LET ports == [k \in DOMAIN nodes |-> NodePort(nodes[k])]
    IN /\ validator_node_list' = nodes
       /\ node_amount' = Len(nodes)
       /\ network_partitions' = <<ports>>
       /\ port_dict' = UpdatedPortDict(ports)
       /\ communication_matrix' = UpdatedMatrix(Len(nodes))
       /\ prev_message_action_matrix' = UpdatedPrevMatrix(Len(nodes))
       /\ subsets_dict' = UpdatedSubsets(Len(nodes))
       /\ last' = Call("update_network", << >>, "none", "None")
       /\ UNCHANGED <<optvars, execution_log, itervars, packetvars>>

(***************************************************************************)
(* Strategy.partition_network                                              *)
(***************************************************************************)
\* partition_network without the comparison of the lengths.
PartitionInvalidSetOnly(partitions) ==
    Range(Flatten(partitions)) # Range(Flatten(network_partitions))

PartitionInvalid(partitions) ==
    \/ Range(Flatten(partitions)) # Range(Flatten(network_partitions))
    \/ Len(Flatten(partitions)) # node_amount

\* partition_network marking only the pair (i, i) of every port i.
PartitionMatrixSelfOnly(partitions) ==
    [i \in Indices |-> [j \in Indices |->
        \E p \in DOMAIN partitions :
            \E a \in DOMAIN partitions[p] :
                /\ port_dict[partitions[p][a]] = i
                /\ port_dict[partitions[p][a]] = j]]

\* partition_network marking a pair only in the order of its part.
PartitionMatrixOneWay(partitions) ==
    [i \in Indices |-> [j \in Indices |->
        \E p \in DOMAIN partitions :
            \E a, b \in DOMAIN partitions[p] :
                /\ a <= b
                /\ port_dict[partitions[p][a]] = i
                /\ port_dict[partitions[p][b]] = j]]

PartitionMatrix(partitions) ==
    [i \in Indices |-> [j \in Indices |->
        \E p \in DOMAIN partitions :
            \E a, b \in DOMAIN partitions[p] :
                /\ port_dict[partitions[p][a]] = i
                /\ port_dict[partitions[p][b]] = j]]

PartitionNetwork(partitions) ==
    IF PartitionInvalid(partitions)
    THEN /\ last' = Call("partition_network", <<partitions>>, "ValueError", "None")
         /\ UNCHANGED <<netvars, optvars, memovars, execution_log, itervars, packetvars>>
    ELSE /\ network_partitions' = partitions
         /\ communication_matrix' = PartitionMatrix(partitions)
         /\ last' = Call("partition_network", <<partitions>>, "none", "None")
         /\ UNCHANGED <<validator_node_list, node_amount, port_dict, optvars,
                        memovars, execution_log, itervars, packetvars>>

(***************************************************************************)
(* The partitions handed to partition_network.                             *)
(***************************************************************************)
\* A block assignment of the installed ports (a restricted growth string).
BlockMaps(n) ==
    {g \in [1 .. n -> 1 .. n] :
        /\ n > 0 => g[1] = 1
        /\ \A k \in 2 .. n : \E m \in 1 .. (k - 1) : g[k] <= g[m] + 1}

NumBlocks(g) == IF DOMAIN g = {} THEN 0 ELSE CHOOSE b \in Range(g) : \A c \in Range(g) : c <= b

\* The partitions of the ports in `ports` that the block assignment g gives.
PartsOf(ports, g) ==
    [b \in 1 .. NumBlocks(g) |->
        LET idx == {k \in DOMAIN ports : g[k] = b}
            RECURSIVE Pick(_)
            Pick(S) == IF S = {} THEN << >>
                       ELSE LET k == CHOOSE x \in S : \A y \in S : x <= y
                            IN <<ports[k]>> \o Pick(S \ {k})
        IN Pick(idx)]

\* The installed ports in index order.
IndexPorts == [k \in 1 .. node_amount |-> NodePort(validator_node_list[k])]

ValidPartitions == {PartsOf(IndexPorts, g) : g \in BlockMaps(node_amount)}

\* A partition with its last part changed by f.
WithLast(parts, f(_)) == [parts EXCEPT ![Len(parts)] = f(parts[Len(parts)])]

DropLast(part) == SubSeq(part, 1, Len(part) - 1)
Unknown == PeerPort(0)

\* The partitions the invalid ones are made from: every node in one part,
\* and every node in a part of its own.
BasePartitions ==
    {<<IndexPorts>>, [k \in 1 .. node_amount |-> <<IndexPorts[k]>>]}

\* A port missing, doubled, unknown and added, unknown and replacing one,
\* and doubled and replacing one.
InvalidPartitions ==
    IF node_amount = 0 THEN {} ELSE
    UNION {
        { LET first == parts[1][1]
              Missing(part) == DropLast(part)
              Doubled(part) == Append(part, first)
              Extra(part) == Append(part, Unknown)
              Swapped(part) == Append(DropLast(part), Unknown)
              Repeated(part) == Append(DropLast(part), first)
          IN CASE v = 1 -> WithLast(parts, Missing)
               [] v = 2 -> WithLast(parts, Doubled)
               [] v = 3 -> WithLast(parts, Extra)
               [] v = 4 -> WithLast(parts, Swapped)
               [] OTHER -> WithLast(parts, Repeated)
          : v \in 1 .. 5 }
        : parts \in BasePartitions }

PartitionInputs == ValidPartitions \cup InvalidPartitions

\* The partition that leaves the k-th installed node alone.
Isolating(k) ==
    <<<<IndexPorts[k]>>, SelectSeq(IndexPorts, LAMBDA p : p # IndexPorts[k])>>

\* The partitions that packets are sent under: the base ones, and the first
\* or the second node alone.
PacketPartitions ==
    BasePartitions \cup {Isolating(k) : k \in {m \in 1 .. 2 : node_amount >= 2}}

(***************************************************************************)
(* NetworkManager: single edges of the communication matrix.               *)
(***************************************************************************)
SetEdge(i, j, b) ==
    [communication_matrix EXCEPT ![i][j] = b, ![j][i] = b]

ConnectNodes(i, j) ==
    IF i = j
    THEN /\ last' = Call("connect_nodes", <<i, j>>, "ValueError", "None")
         /\ UNCHANGED <<netvars, optvars, memovars, execution_log, itervars, packetvars>>
    ELSE /\ communication_matrix' = SetEdge(i, j, TRUE)
         /\ last' = Call("connect_nodes", <<i, j>>, "none", "None")
         /\ UNCHANGED <<validator_node_list, node_amount, network_partitions,
                        port_dict, optvars, memovars, execution_log, itervars, packetvars>>

DisconnectNodes(i, j) ==
    IF i = j
    THEN /\ last' = Call("disconnect_nodes", <<i, j>>, "ValueError", "None")
         /\ UNCHANGED <<netvars, optvars, memovars, execution_log, itervars, packetvars>>
    ELSE /\ communication_matrix' = SetEdge(i, j, FALSE)
         /\ last' = Call("disconnect_nodes", <<i, j>>, "none", "None")
         /\ UNCHANGED <<validator_node_list, node_amount, network_partitions,
                        port_dict, optvars, memovars, execution_log, itervars, packetvars>>

\* reset_communications: the effect of partition_network with one part
\* holding every node.
ResetCommunications ==
    /\ network_partitions' = <<IndexPorts>>
    /\ communication_matrix' = PartitionMatrix(<<IndexPorts>>)
    /\ last' = Call("reset_communications", << >>, "none", "None")
    /\ UNCHANGED <<validator_node_list, node_amount, port_dict, optvars,
                   memovars, execution_log, itervars, packetvars>>

CheckCommunicationResult(i, j) ==
    IF i = j THEN <<"ValueError", "None">>
    ELSE <<"none", communication_matrix[i][j]>>

CheckCommunication(i, j) ==
    /\ last' = Call("check_communication", <<i, j>>,
                    CheckCommunicationResult(i, j)[1],
                    CheckCommunicationResult(i, j)[2])
    /\ UNCHANGED <<netvars, optvars, memovars, execution_log, itervars, packetvars>>

(***************************************************************************)
(* NetworkManager: memoisation of the last message per (src, dst).         *)
(***************************************************************************)
\* set_message_action without the check of a self-edge.
SetMessageActionErrorNoSelfCheck(i, j) ==
    IF ~auto_parse_identical THEN "ValueError" ELSE "none"

\* set_message_action without the check of auto_parse_identical.
SetMessageActionErrorNoFlagCheck(i, j) ==
    IF i = j THEN "ValueError" ELSE "none"

SetMessageActionError(i, j) ==
    IF i = j \/ ~auto_parse_identical THEN "ValueError" ELSE "none"

\* An entry stored under the transposed pair.
StoredEntryTransposed(i, j, original, mutated, action) ==
    [prev_message_action_matrix EXCEPT ![j][i] =
        [initial_message |-> original, final_message |-> mutated, action |-> action]]

\* An entry stored without the mutation of the payload.
StoredEntryUnmutated(i, j, original, mutated, action) ==
    [prev_message_action_matrix EXCEPT ![i][j] =
        [initial_message |-> original, final_message |-> original, action |-> action]]

StoredEntry(i, j, original, mutated, action) ==
    [prev_message_action_matrix EXCEPT ![i][j] =
        [initial_message |-> original, final_message |-> mutated, action |-> action]]

SetMessageAction(i, j, original, mutated, action) ==
    IF SetMessageActionError(i, j) # "none"
    THEN /\ last' = Call("set_message_action", <<i, j>>,
                         SetMessageActionError(i, j), "None")
         /\ UNCHANGED <<netvars, optvars, memovars, execution_log, itervars, packetvars>>
    ELSE /\ prev_message_action_matrix' = StoredEntry(i, j, original, mutated, action)
         /\ last' = Call("set_message_action", <<i, j, original, mutated, action>>,
                         "none", "None")
         /\ UNCHANGED <<netvars, optvars, subsets_dict, execution_log, itervars, packetvars>>

\* check_previous_message with the payload of a fresh entry on a miss.
CheckPreviousMessageResultSentinel(i, j, data) ==
    IF ~auto_parse_identical THEN <<"ValueError", "None">>
    ELSE IF prev_message_action_matrix[i][j].initial_message = data
         THEN <<"none", <<TRUE, <<prev_message_action_matrix[i][j].final_message,
                                  prev_message_action_matrix[i][j].action>>>>>>
         ELSE <<"none", <<FALSE, <<Empty, -1>>>>>>

\* check_previous_message: <<error, <<hit, <<bytes, action>>>>>>
CheckPreviousMessageResult(i, j, data) ==
    IF ~auto_parse_identical THEN <<"ValueError", "None">>
    ELSE IF prev_message_action_matrix[i][j].initial_message = data
         THEN <<"none", <<TRUE, <<prev_message_action_matrix[i][j].final_message,
                                  prev_message_action_matrix[i][j].action>>>>>>
         ELSE <<"none", <<FALSE, <<data, 0>>>>>>

CheckPreviousMessage(i, j, data) ==
    /\ last' = Call("check_previous_message", <<i, j, data>>,
                    CheckPreviousMessageResult(i, j, data)[1],
                    CheckPreviousMessageResult(i, j, data)[2])
    /\ UNCHANGED <<netvars, optvars, memovars, execution_log, itervars, packetvars>>

(***************************************************************************)
(* NetworkManager: subsets of receivers a sender broadcasts to.            *)
(***************************************************************************)
\* An entry of subsets_dict is a flat list of receivers or a list of lists.
Flat(items) == [nested |-> FALSE, items |-> items]
Nested(items) == [nested |-> TRUE, items |-> items]

\* The groups of a nested entry taken as one group.
GroupsMerged(entry) ==
    IF entry.nested
    THEN LET RECURSIVE Join(_)
             Join(gs) == IF gs = << >> THEN << >> ELSE Head(gs) \o Join(Tail(gs))
         IN <<Join(entry.items)>>
    ELSE <<entry.items>>

\* The groups of an entry: a flat list is one group.
Groups(entry) == IF entry.nested THEN entry.items ELSE <<entry.items>>

\* The sender s is among the receivers of one of its own groups.
ListsItself(d) ==
    \E s \in DOMAIN d : \E g \in DOMAIN Groups(d[s]) : s \in Range(Groups(d[s])[g])

\* set_subsets_dict without the check of the receivers against the sender.
SubsetsErrorNoSelfCheck(d) ==
    IF ~auto_parse_subsets THEN "ValueError"
    ELSE IF \E s \in DOMAIN d : s \notin Indices THEN "ValueError"
    ELSE "none"

SubsetsError(d) ==
    IF ~auto_parse_subsets THEN "ValueError"
    ELSE IF \E s \in DOMAIN d : s \notin Indices THEN "ValueError"
    ELSE IF ListsItself(d) THEN "ValueError"
    ELSE "none"

\* Every index that d does not list gets [].
InstalledSubsets(d) ==
    [i \in Indices |-> IF i \in DOMAIN d THEN d[i] ELSE NoSubsets]

SetSubsetsDict(d) ==
    IF SubsetsError(d) # "none"
    THEN /\ last' = Call("set_subsets_dict", << >>, SubsetsError(d), "None")
         /\ UNCHANGED <<netvars, optvars, memovars, execution_log, itervars, packetvars>>
    ELSE /\ subsets_dict' = InstalledSubsets(d)
         /\ last' = Call("set_subsets_dict", <<d>>, "none", "None")
         /\ UNCHANGED <<netvars, optvars, prev_message_action_matrix, execution_log, itervars, packetvars>>

\* set_subsets_dict_entry: the entry of one sender, the others as they are.
SetSubsetsDictEntry(k, v) ==
    LET d == [s \in {k} |-> v]
    IN IF SubsetsError(d) # "none"
       THEN /\ last' = Call("set_subsets_dict_entry", <<k>>, SubsetsError(d), "None")
            /\ UNCHANGED <<netvars, optvars, memovars, execution_log, itervars, packetvars>>
       ELSE /\ subsets_dict' = [subsets_dict EXCEPT ![k] = v]
            /\ last' = Call("set_subsets_dict_entry", <<k>>, "none", "None")
            /\ UNCHANGED <<netvars, optvars, prev_message_action_matrix, execution_log, itervars, packetvars>>

\* The first member of group g whose stored initial message is data, or -1.
FirstMatch(sender, g, data) ==
    LET hits == {k \in DOMAIN g :
                    prev_message_action_matrix[sender][g[k]].initial_message = data}
    IN IF hits = {} THEN -1
       ELSE g[CHOOSE k \in hits : \A m \in hits : k <= m]

\* check_subsets answering a match with the entry of the receiver's own pair.
CheckSubsetsResultOwnEntry(sender, receiver, data) ==
    IF ~auto_parse_subsets THEN <<"ValueError", "None">>
    ELSE LET groups == Groups(subsets_dict[sender])
             found == {g \in DOMAIN groups :
                          /\ receiver \in Range(groups[g])
                          /\ FirstMatch(sender, groups[g], data) # -1}
         IN IF found = {} THEN <<"none", <<FALSE, <<data, 0>>>>>>
            ELSE <<"none", <<TRUE,
                     <<prev_message_action_matrix[sender][receiver].final_message,
                       prev_message_action_matrix[sender][receiver].action>>>>>>

\* check_subsets: <<error, <<hit, <<bytes, action>>>>>>
CheckSubsetsResult(sender, receiver, data) ==
    IF ~auto_parse_subsets THEN <<"ValueError", "None">>
    ELSE LET groups == Groups(subsets_dict[sender])
             found == {g \in DOMAIN groups :
                          /\ receiver \in Range(groups[g])
                          /\ FirstMatch(sender, groups[g], data) # -1}
         IN IF found = {} THEN <<"none", <<FALSE, <<data, 0>>>>>>
            ELSE LET g == CHOOSE x \in found : \A y \in found : x <= y
                     m == FirstMatch(sender, groups[g], data)
                 IN <<"none", <<TRUE,
                        <<prev_message_action_matrix[sender][m].final_message,
                          prev_message_action_matrix[sender][m].action>>>>>>

CheckSubsets(sender, receiver, data) ==
    /\ last' = Call("check_subsets", <<sender, receiver, data>>,
                    CheckSubsetsResult(sender, receiver, data)[1],
                    CheckSubsetsResult(sender, receiver, data)[2])
    /\ UNCHANGED <<netvars, optvars, memovars, execution_log, itervars, packetvars>>

(***************************************************************************)
(* Strategy.apply_network_partition and Strategy.process_packet            *)
(***************************************************************************)
ApplyNetworkPartition(action, peer_from_port, peer_to_port) ==
    IF communication_matrix[port_dict[peer_from_port]][port_dict[peer_to_port]]
    THEN action
    ELSE MAX_U32

\* What the concrete handle_packet does with a payload: it decides, or raises.
HandlePacketOutcomes(data) == Decisions(data) \cup {<<"raise", -1>>}

ProcessPacket(from_port, to_port, data) ==
    IF from_port \notin DOMAIN port_dict \/ to_port \notin DOMAIN port_dict
    THEN /\ last' = Call("process_packet", <<from_port, to_port, data>>,
                         "KeyError", "None")
         /\ UNCHANGED <<netvars, optvars, memovars, execution_log, itervars, packetvars>>
    ELSE
    LET src == port_dict[from_port]
        dst == port_dict[to_port]
        args == <<from_port, to_port, data>>
        identical == IF auto_parse_identical
                     THEN CheckPreviousMessageResult(src, dst, data)[2]
                     ELSE <<FALSE, <<data, 0>>>>
        subsets == IF auto_parse_subsets
                   THEN CheckSubsetsResult(src, dst, data)[2]
                   ELSE <<FALSE, <<data, 0>>>>
    IN IF identical[1]
       THEN /\ last' = Call("process_packet", args, "none", identical[2])
            /\ UNCHANGED <<netvars, optvars, memovars, execution_log, itervars, packetvars>>
       ELSE IF subsets[1]
       THEN /\ last' = Call("process_packet", args, "none", subsets[2])
            /\ UNCHANGED <<netvars, optvars, memovars, execution_log, itervars, packetvars>>
       ELSE \E out \in HandlePacketOutcomes(data) :
            IF out[1] = "raise"
            THEN /\ last' = CallHandled("process_packet", args, "StrategyFault",
                                        "None", Raised)
                 /\ UNCHANGED <<netvars, optvars, memovars, execution_log, itervars, packetvars>>
            ELSE LET action == IF auto_partition
                               THEN ApplyNetworkPartition(out[2], from_port, to_port)
                               ELSE out[2]
                 IN /\ prev_message_action_matrix' =
                          IF auto_parse_identical
                          THEN StoredEntry(src, dst, data, out[1], action)
                          ELSE prev_message_action_matrix
                    /\ last' = CallHandled("process_packet", args, "none",
                                           <<out[1], action>>, Decided(out))
                    /\ UNCHANGED <<netvars, optvars, subsets_dict, execution_log, itervars, packetvars>>

(***************************************************************************)
(* Strategy.process_packet on the workers of the server's pool             *)
(***************************************************************************)
\* The workers that process a packet at the same time.
PacketWorkers == {1, 2}

NoDecision == <<"", -1>>

\* A worker outside process_packet.
IdleHandler == [pc |-> "idle"]

\* A worker that enters process_packet: its position, its packet, what the
\* strategy's handle_packet returns for the packet's data, whether it has
\* called handle_packet, its outcome, and the outcome of process_packet run
\* alone on the state in which the packet arrived.
Entered(from_port, to_port, data, out, alone) ==
    [pc |-> "check", from_port |-> from_port, to_port |-> to_port,
     data |-> data, handles |-> out, computed |-> FALSE, err |-> "none",
     ret |-> NoDecision, alone |-> alone]

\* The action after the partition is applied, when it is.
Partitioned(action, from_port, to_port) ==
    IF auto_partition
    THEN ApplyNetworkPartition(action, from_port, to_port)
    ELSE action

\* process_packet run alone on the current state, for a strategy whose
\* handle_packet returns out: the exception, the decision, and the entry of
\* the pair after it.
ProcessedAlone(from_port, to_port, data, out) ==
    IF from_port \notin DOMAIN port_dict \/ to_port \notin DOMAIN port_dict
    THEN [err |-> "KeyError", ret |-> NoDecision, entry |-> InitialEntry]
    ELSE
    LET src == port_dict[from_port]
        dst == port_dict[to_port]
        entry == prev_message_action_matrix[src][dst]
        identical == IF auto_parse_identical
                     THEN CheckPreviousMessageResult(src, dst, data)[2]
                     ELSE <<FALSE, <<data, 0>>>>
        subsets == IF auto_parse_subsets
                   THEN CheckSubsetsResult(src, dst, data)[2]
                   ELSE <<FALSE, <<data, 0>>>>
        decision == <<out[1], Partitioned(out[2], from_port, to_port)>>
    IN IF identical[1]
       THEN [err |-> "none", ret |-> identical[2], entry |-> entry]
       ELSE IF subsets[1]
       THEN [err |-> "none", ret |-> subsets[2], entry |-> entry]
       ELSE IF out[1] = "raise"
       THEN [err |-> "StrategyFault", ret |-> NoDecision, entry |-> entry]
       ELSE [err |-> "none", ret |-> decision,
             entry |-> IF auto_parse_identical
                       THEN StoredEntry(src, dst, data, decision[1], decision[2])[src][dst]
                       ELSE entry]

\* Two packets with the same ports and data arrive, and a worker of the pool
\* takes each.
Dispatch(from_port, to_port, data, out) ==
    /\ \A w \in PacketWorkers : handlers[w].pc = "idle"
    /\ handlers' = [w \in PacketWorkers |->
          Entered(from_port, to_port, data, out,
                  ProcessedAlone(from_port, to_port, data, out))]
    /\ last' = Call("dispatch", <<from_port, to_port, data>>, "none", "None")
    /\ UNCHANGED <<netvars, optvars, memovars, execution_log, itervars>>

\* A handle_packet whose result depends on the worker that calls it.
HandlePacketByWorker(w, h) ==
    IF w = 1 THEN h.handles ELSE <<h.data, MAX_U32>>

\* handle_packet of a deterministic strategy: its result is a function of
\* the data.
HandlePacket(w, h) == h.handles

Returned(w, err, ret) ==
    [handlers EXCEPT ![w].pc = "done", ![w].err = err, ![w].ret = ret]

\* A worker inside process_packet, a call at a time.
HandlerStep(w) ==
    LET h == handlers[w]
        src == port_dict[h.from_port]
        dst == port_dict[h.to_port]
    IN /\ h.pc \notin {"idle", "done"}
       /\ last' = Call("process_packet", <<w, h.pc>>, "none", "None")
       /\ UNCHANGED <<netvars, optvars, subsets_dict, execution_log, itervars>>
       /\ CASE h.pc = "check" ->
                 \* the ports are resolved, check_previous_message
                 /\ UNCHANGED prev_message_action_matrix
                 /\ IF h.from_port \notin DOMAIN port_dict
                       \/ h.to_port \notin DOMAIN port_dict
                    THEN handlers' = Returned(w, "KeyError", NoDecision)
                    ELSE IF auto_parse_identical
                            /\ CheckPreviousMessageResult(src, dst, h.data)[2][1]
                    THEN handlers' = Returned(w, "none",
                            CheckPreviousMessageResult(src, dst, h.data)[2][2])
                    ELSE handlers' = [handlers EXCEPT ![w].pc = "subsets"]
            [] h.pc = "subsets" ->
                 \* check_subsets
                 /\ UNCHANGED prev_message_action_matrix
                 /\ IF auto_parse_subsets /\ CheckSubsetsResult(src, dst, h.data)[2][1]
                    THEN handlers' = Returned(w, "none",
                            CheckSubsetsResult(src, dst, h.data)[2][2])
                    ELSE handlers' = [handlers EXCEPT ![w].pc = "handle"]
            [] h.pc = "handle" ->
                 \* handle_packet, and the partition applied to its action
                 /\ UNCHANGED prev_message_action_matrix
                 /\ LET out == HandlePacket(w, h)
                    IN IF out[1] = "raise"
                       THEN handlers' = [Returned(w, "StrategyFault", NoDecision)
                                            EXCEPT ![w].computed = TRUE]
                       ELSE handlers' =
                              [handlers EXCEPT
                                 ![w].pc = IF auto_parse_identical THEN "set" ELSE "done",
                                 ![w].computed = TRUE,
                                 ![w].ret = <<out[1], Partitioned(out[2], h.from_port,
                                                                  h.to_port)>>]
            [] h.pc = "set" ->
                 \* set_message_action
                 /\ prev_message_action_matrix' =
                       StoredEntry(src, dst, h.data, h.ret[1], h.ret[2])
                 /\ handlers' = [handlers EXCEPT ![w].pc = "done"]

\* Both acks have been returned.
Acknowledge ==
    /\ \A w \in PacketWorkers : handlers[w].pc = "done"
    /\ handlers' = [w \in PacketWorkers |-> IdleHandler]
    /\ last' = Call("acknowledge", << >>, "none", "None")
    /\ UNCHANGED <<netvars, optvars, memovars, execution_log, itervars>>

(***************************************************************************)
(* PacketService.SendPacket                                                *)
(***************************************************************************)
ActionLabel(action) ==
    IF action = 0 THEN "Send" ELSE IF action = MAX_U32 THEN "Drop" ELSE "Delay"

\* The row written: the action's label (with the delay), the ports and the
\* data returned.
LogRow(action, from_port, to_port, data) ==
    <<ActionLabel(action), action, from_port, to_port, data>>

SendPacket(request) ==
    \E out \in HandlePacketOutcomes(request.data) :
        IF out[1] = "raise"
        THEN /\ last' = CallHandled("SendPacket", request, "StrategyFault",
                                    "None", Raised)
             /\ UNCHANGED <<netvars, optvars, memovars, execution_log, itervars, packetvars>>
        ELSE IF ~keep_log
        THEN /\ last' = CallHandled("SendPacket", request, "AttributeError",
                                    "None", Decided(out))
             /\ UNCHANGED <<netvars, optvars, memovars, execution_log, itervars, packetvars>>
        ELSE /\ Len(execution_log) < MaxRows
             /\ execution_log' = Append(execution_log,
                    LogRow(out[2], request.from_port, request.to_port, out[1]))
             /\ last' = CallHandled("SendPacket", request, "none",
                                    [data |-> out[1], action |-> out[2]], Decided(out))
             /\ UNCHANGED <<netvars, optvars, memovars, itervars, packetvars>>

(***************************************************************************)
(* TimeBasedIteration and LedgerBasedIteration                             *)
(***************************************************************************)
\* The RPC workers that deliver status changes, and the timer threads that
\* can be inside _timeout_reached at once.
Workers == {1, 2}
Runners == {1}

\* The validators of an iteration, and the ledger sequence to reach.
IterationNodes == 2
TargetSeq == 2

\* The iterations advances are counted for.
Iterations == 0 .. (MaxIterations + 3)

IdleWorker == [pc |-> "idle", from_id |-> 0, newEvent |-> 0, ledgerSeq |-> 0,
               local |-> 0, belongs |-> 0]
IdleRunner == [pc |-> "idle", local |-> 0, belongs |-> 0]
NoTimer == [armed |-> FALSE, iteration |-> 0, by |-> "none"]

\* TimeBasedIteration.__init__
InitIterationType(max_seq) ==
    /\ cur_iteration = 0
    /\ max_ledger_seq = max_seq
    /\ ledger_timeout = (max_seq # -1)
    /\ validator_nodes = 0
    /\ ledger_validation_map = << >>
    /\ timer = NoTimer
    /\ orphans = {}
    /\ lock = 0
    /\ spec_checker = FALSE
    /\ server = TRUE
    /\ process = "none"
    /\ alive = 0
    /\ containers = TRUE
    /\ result_logger = 0
    /\ logging = FALSE
    /\ workers = [w \in Workers |-> IdleWorker]
    /\ runners = [r \in Runners |-> IdleRunner]
    /\ advanced = [k \in Iterations |-> 0]
    /\ started = [k \in Iterations |-> 0]
    /\ spec_checks = [k \in Iterations |-> 0]

\* What the steps of the iteration controller leave alone.
StrategyUnchanged ==
    UNCHANGED <<netvars, optvars, memovars, execution_log, packetvars>>

\* The construction parameters and the spec checker.
confvars == <<max_ledger_seq, ledger_timeout, spec_checker>>
\* What add_iteration works on.
advvars == <<cur_iteration, advanced, spec_checks, started, process, alive,
             containers, server, result_logger, timer, orphans>>

\* _start_timeout_timer called by add_iteration: the timer before is
\* cancelled, a new one is armed.
StartedTimer(iteration) ==
    [armed |-> TRUE, iteration |-> iteration, by |-> "add_iteration"]

\* _start_timeout_timer called by on_status_change.
RestartedTimer(iteration) ==
    [armed |-> TRUE, iteration |-> iteration, by |-> "on_status_change"]

\* threading.Timer.cancel() of the timer that _timer refers to.
Cancelled(t) == [t EXCEPT !.armed = FALSE]

\* The timers that are armed: the one _timer refers to, and the ones that
\* were replaced without being cancelled.
ArmedTimers == (IF timer.armed THEN {timer.iteration} ELSE {}) \cup orphans

\* set_log_dir
SetLogDir ==
    /\ ~spec_checker
    /\ spec_checker' = TRUE
    /\ last' = Call("set_log_dir", << >>, "none", "None")
    /\ StrategyUnchanged
    /\ UNCHANGED <<max_ledger_seq, ledger_timeout, validator_nodes,
                   ledger_validation_map, lock, logging, workers, runners,
                   advvars>>

\* set_validator_nodes, called once for every interceptor that is started.
SetValidatorNodes(n) ==
    /\ process = "started"
    /\ process' = "announced"
    /\ ledger_validation_map' = [i \in 0 .. (n - 1) |-> 1]
    /\ validator_nodes' = n
    /\ last' = Call("set_validator_nodes", <<n>>, "none", "None")
    /\ StrategyUnchanged
    /\ UNCHANGED <<confvars, lock, logging, workers, runners, cur_iteration,
                   advanced, spec_checks, started, alive, containers, server,
                   result_logger, timer, orphans>>

\* InterceptorManager.stop: the subprocess that process refers to is
\* terminated, if there is one.
Stopped(p) == IF p = "none" THEN "none" ELSE "stopped"
Running(p) == p \in {"started", "announced"}

\* add_iteration, lines 120-125: the checks, and the read of cur_iteration.
\* The thread t of the threads ts enters with the iteration it advances for.
AddIterationRead(ts, t, belongs) ==
    IF ~spec_checker
    THEN <<"ValueError", [ts EXCEPT ![t] = [@ EXCEPT !.pc = "idle", !.local = 0,
                                                     !.belongs = 0]]>>
    ELSE <<"none", [ts EXCEPT ![t] = [@ EXCEPT !.pc = "write",
                                               !.local = cur_iteration,
                                               !.belongs = belongs]]>>

\* add_iteration, line 125: the write of cur_iteration.
AddIterationWrite(local, belongs) ==
    /\ cur_iteration' = local + 1
    /\ advanced' = [advanced EXCEPT ![belongs] = @ + 1]

\* add_iteration, lines 132-133: the spec check of the iteration before.
SpecChecked(iteration) ==
    IF iteration > 1
    THEN [spec_checks EXCEPT ![iteration - 1] = @ + 1]
    ELSE spec_checks

\* The calls of lines 135-139 and of lines 141-143 in their order; _stop_all
\* stops the interceptor and then the validator containers.
StartingCalls == <<"stop", "new_result_logger", "start_new", "_start_timeout_timer">>
EndingCalls ==
    <<"stop", "cleanup_docker_containers", "aggregate_spec_checks", "server.stop">>

\* The calls of lines 141-143 with the server stopped first.
BranchCallsServerFirst ==
    IF cur_iteration <= MaxIterations
    THEN StartingCalls
    ELSE <<"server.stop", "stop", "cleanup_docker_containers", "aggregate_spec_checks">>

\* The calls that lines 134-143 make for the value of cur_iteration.
BranchCalls == IF cur_iteration <= MaxIterations THEN StartingCalls ELSE EndingCalls

\* The calls of lines 135-136, or of lines 141-143.
ClosedCalls ==
    IF cur_iteration <= MaxIterations THEN <<"stop", "new_result_logger">> ELSE EndingCalls

\* The subprocesses that run after InterceptorManager.stop.
AliveStopped == IF Running(process) THEN alive - 1 ELSE alive

\* add_iteration, lines 128-136 and 140-143: the logging threads are joined,
\* the iteration before is checked, and the interceptor is stopped: for the
\* next iteration, with a new result logger, or with everything else.
AddIterationClose ==
    /\ ~logging
    /\ spec_checks' = SpecChecked(cur_iteration)
    /\ process' = Stopped(process)
    /\ alive' = AliveStopped
    /\ IF cur_iteration <= MaxIterations
       THEN /\ result_logger' = cur_iteration
            /\ UNCHANGED <<containers, server>>
       ELSE /\ containers' = FALSE
            /\ server' = FALSE
            /\ UNCHANGED result_logger
    /\ UNCHANGED <<cur_iteration, advanced, started, timer, orphans>>

\* add_iteration, lines 137-138 and 76-77: start_new, and the timer that
\* _timer refers to is cancelled.
AddIterationStart ==
    /\ process' = "started"
    /\ alive' = alive + 1
    /\ started' = [started EXCEPT ![cur_iteration] = @ + 1]
    /\ timer' = Cancelled(timer)
    /\ UNCHANGED <<cur_iteration, advanced, spec_checks, containers, server,
                   result_logger, orphans>>

\* add_iteration, lines 78-79: _timer is replaced by a new timer, which is
\* started. A timer that another thread armed in between stays armed.
AddIterationArm ==
    /\ timer' = StartedTimer(cur_iteration)
    /\ orphans' = IF timer.armed THEN orphans \cup {timer.iteration} ELSE orphans
    /\ UNCHANGED <<cur_iteration, advanced, spec_checks, started, process, alive,
                   containers, server, result_logger>>

\* add_iteration, lines 128-143 in one step: the next iteration is started,
\* or all ends.
AddIterationBranch ==
    /\ ~logging
    /\ spec_checks' = SpecChecked(cur_iteration)
    /\ IF cur_iteration <= MaxIterations
       THEN /\ process' = "started"
            /\ alive' = AliveStopped + 1
            /\ result_logger' = cur_iteration
            /\ started' = [started EXCEPT ![cur_iteration] = @ + 1]
            /\ timer' = StartedTimer(cur_iteration)
            /\ UNCHANGED <<containers, server>>
       ELSE /\ process' = Stopped(process)
            /\ alive' = AliveStopped
            /\ containers' = FALSE
            /\ server' = FALSE
            /\ UNCHANGED <<result_logger, started, timer>>
    /\ UNCHANGED <<cur_iteration, advanced, orphans>>

\* The position after a call of add_iteration at pc.
AddIterationNext(pc) ==
    CASE pc = "write" -> "close"
      [] pc = "close" -> IF cur_iteration <= MaxIterations THEN "start" ELSE "idle"
      [] pc = "start" -> "arm"
      [] pc = "arm" -> "idle"

\* The main thread starts the run: add_iteration with nothing running yet.
StartRun ==
    /\ cur_iteration = 0
    /\ process = "none"
    /\ server
    /\ \A r \in Runners : runners[r].pc = "idle"
    /\ IF ~spec_checker
       THEN /\ last' = Call("add_iteration", << >>, "ValueError", << >>)
            /\ UNCHANGED advvars
       ELSE /\ AddIterationWrite(cur_iteration, 0)
            /\ process' = "started"
            /\ alive' = alive + 1
            /\ started' = [started EXCEPT ![cur_iteration + 1] = @ + 1]
            /\ result_logger' = cur_iteration + 1
            /\ timer' = StartedTimer(cur_iteration + 1)
            /\ UNCHANGED <<spec_checks, containers, server, orphans>>
            /\ last' = Call("add_iteration", << >>, "none", StartingCalls)
    /\ StrategyUnchanged
    /\ UNCHANGED <<confvars, validator_nodes, ledger_validation_map, lock,
                   logging, workers, runners>>

\* A timer expires: its thread is past the point where cancel() stops it,
\* and calls _timeout_reached.
TimeoutReached(r) ==
    /\ ArmedTimers # {}
    /\ cur_iteration <= MaxIterations + 1
    /\ runners[r].pc = "idle"
    /\ \A q \in Runners : q < r => runners[q].pc # "idle"
    /\ \E k \in ArmedTimers :
          /\ IF timer.armed /\ timer.iteration = k
             THEN timer' = Cancelled(timer) /\ UNCHANGED orphans
             ELSE orphans' = orphans \ {k} /\ UNCHANGED timer
          /\ runners' = [runners EXCEPT ![r] = [pc |-> "read", local |-> 0,
                                                belongs |-> k]]
    /\ last' = Call("_timeout_reached", << >>, "none", "None")
    /\ StrategyUnchanged
    /\ UNCHANGED <<confvars, validator_nodes, ledger_validation_map, lock,
                   logging, workers, cur_iteration, advanced, spec_checks,
                   started, process, alive, containers, server, result_logger>>

\* A timer thread inside add_iteration: its read and its write of
\* cur_iteration, and the rest in one step.
RunnerStep(r) ==
    /\ runners[r].pc # "idle"
    /\ StrategyUnchanged
    /\ UNCHANGED <<confvars, validator_nodes, ledger_validation_map, lock,
                   logging, workers>>
    /\ CASE runners[r].pc = "read" ->
              /\ runners' = AddIterationRead(runners, r, runners[r].belongs)[2]
              /\ last' = Call("add_iteration", <<"timer">>,
                              AddIterationRead(runners, r, runners[r].belongs)[1], <<"read">>)
              /\ UNCHANGED advvars
         [] runners[r].pc = "write" ->
              /\ AddIterationWrite(runners[r].local, runners[r].belongs)
              /\ runners' = [runners EXCEPT ![r].pc = "branch", ![r].local = 0]
              /\ last' = Call("add_iteration", <<"timer">>, "none", <<"write">>)
              /\ UNCHANGED <<spec_checks, started, process, alive, containers,
                             server, result_logger, timer, orphans>>
         [] runners[r].pc = "branch" ->
              /\ AddIterationBranch
              /\ runners' = [runners EXCEPT ![r] = IdleRunner]
              /\ last' = Call("add_iteration", <<"timer">>, "none", BranchCalls)

\* A timer thread inside add_iteration, a call at a time.
RunnerCall(r) ==
    /\ runners[r].pc # "idle"
    /\ StrategyUnchanged
    /\ UNCHANGED <<confvars, validator_nodes, ledger_validation_map, lock,
                   logging, workers>>
    /\ CASE runners[r].pc = "read" ->
              /\ runners' = AddIterationRead(runners, r, runners[r].belongs)[2]
              /\ last' = Call("add_iteration", <<"timer">>,
                              AddIterationRead(runners, r, runners[r].belongs)[1], <<"read">>)
              /\ UNCHANGED advvars
         [] runners[r].pc = "write" ->
              /\ AddIterationWrite(runners[r].local, runners[r].belongs)
              /\ runners' = [runners EXCEPT ![r].pc = "close", ![r].local = 0]
              /\ last' = Call("add_iteration", <<"timer">>, "none", <<"write">>)
              /\ UNCHANGED <<spec_checks, started, process, alive, containers,
                             server, result_logger, timer, orphans>>
         [] runners[r].pc = "close" ->
              /\ AddIterationClose
              /\ runners' = IF AddIterationNext("close") = "idle"
                            THEN [runners EXCEPT ![r] = IdleRunner]
                            ELSE [runners EXCEPT ![r].pc = "start"]
              /\ last' = Call("add_iteration", <<"timer">>, "none", ClosedCalls)
         [] runners[r].pc = "start" ->
              /\ AddIterationStart
              /\ runners' = [runners EXCEPT ![r].pc = "arm"]
              /\ last' = Call("add_iteration", <<"timer">>, "none", <<"start_new", "cancel">>)
         [] runners[r].pc = "arm" ->
              /\ AddIterationArm
              /\ runners' = [runners EXCEPT ![r] = IdleRunner]
              /\ last' = Call("add_iteration", <<"timer">>, "none", <<"start">>)

\* The status changes the validators emit: newEvent and ledgerSeq.
StatusChanges == {<<0, TargetSeq + 1>>, <<1, TargetSeq>>, <<1, TargetSeq + 1>>}

\* on_status_change, lines 166-169: a worker takes a status change of node
\* from_id and waits for the lock. The pool hands it to its first idle worker.
OnStatusChange(w, from_id, status) ==
    /\ workers[w].pc = "idle"
    /\ \A q \in Workers : q < w => workers[q].pc # "idle"
    /\ server
    /\ process = "announced"
    /\ IF validator_nodes = 0
       THEN /\ last' = Call("on_status_change", << >>, "ValueError", "None")
            /\ UNCHANGED workers
       ELSE /\ workers' = [workers EXCEPT ![w] =
                   [pc |-> "wait", from_id |-> from_id, newEvent |-> status[1],
                    ledgerSeq |-> status[2], local |-> 0, belongs |-> 0]]
            /\ last' = Call("on_status_change", << >>, "none", "wait")
    /\ StrategyUnchanged
    /\ UNCHANGED <<confvars, validator_nodes, ledger_validation_map, lock,
                   logging, runners, advvars>>

\* The LogLedgerResult threads that run have ended.
LogLedgerResultDone ==
    /\ logging
    /\ logging' = FALSE
    /\ last' = Call("log_ledger_result", << >>, "none", "None")
    /\ StrategyUnchanged
    /\ UNCHANGED <<confvars, validator_nodes, ledger_validation_map, lock,
                   workers, runners, advvars>>

\* An accepted ledger taken as new whatever its sequence.
NewLedgerAnySeq(from_id, newEvent, ledgerSeq) ==
    newEvent = 1

\* The ledger is an accepted one that is newer than the stored one.
NewLedger(from_id, newEvent, ledgerSeq) ==
    newEvent = 1 /\ ledgerSeq > ledger_validation_map[from_id]

\* all() of the entries without the test for an empty map.
AllValidatedVacuous ==
    \A i \in DOMAIN ledger_validation_map :
       ledger_validation_map[i] >= max_ledger_seq

\* Every node has reached max_ledger_seq (and there is a node).
AllValidated ==
    /\ DOMAIN ledger_validation_map # {}
    /\ \A i \in DOMAIN ledger_validation_map :
          ledger_validation_map[i] >= max_ledger_seq

Released(w) == [workers EXCEPT ![w] = IdleWorker]

\* Lines 185-186 with the timer re-armed whatever ledger_timeout is.
RearmedAlways == RestartedTimer(cur_iteration)

\* Lines 185-186: the timer after a new ledger.
Rearmed == IF ledger_timeout THEN RestartedTimer(cur_iteration) ELSE timer

\* on_status_change under the lock, a step at a time.
WorkerStep(w) ==
    /\ workers[w].pc # "idle"
    /\ StrategyUnchanged
    /\ UNCHANGED <<confvars, validator_nodes, runners>>
    /\ CASE workers[w].pc = "wait" ->
              \* lines 169-202: the lock is taken and the event is applied
              /\ lock = 0
              /\ UNCHANGED <<cur_iteration, advanced, spec_checks, started,
                             process, alive, containers, server, result_logger,
                             orphans>>
              /\ IF workers[w].newEvent = 1
                    /\ workers[w].from_id \notin DOMAIN ledger_validation_map
                 THEN /\ workers' = Released(w)
                      /\ last' = Call("on_status_change", << >>, "KeyError", "None")
                      /\ UNCHANGED <<ledger_validation_map, timer, lock, logging>>
                 ELSE /\ lock' = w
                      /\ workers' = [workers EXCEPT ![w].pc = "applied"]
                      /\ last' = Call("on_status_change", << >>, "none", "applied")
                      /\ IF NewLedger(workers[w].from_id, workers[w].newEvent,
                                      workers[w].ledgerSeq)
                         THEN /\ ledger_validation_map' =
                                    [ledger_validation_map EXCEPT
                                       ![workers[w].from_id] = workers[w].ledgerSeq]
                              /\ timer' = Rearmed
                              /\ logging' = TRUE
                         ELSE UNCHANGED <<ledger_validation_map, timer, logging>>
         [] workers[w].pc = "applied" ->
              \* lines 204-214: the test, and _reset_values
              /\ UNCHANGED <<cur_iteration, advanced, spec_checks, started,
                             process, alive, containers, server, result_logger,
                             orphans, logging>>
              /\ IF max_ledger_seq # -1 /\ AllValidated
                 THEN /\ timer' = NoTimer
                      /\ ledger_validation_map' = << >>
                      /\ workers' = [workers EXCEPT ![w].pc = "read"]
                      /\ last' = Call("on_status_change", << >>, "none", "advance")
                      /\ UNCHANGED lock
                 ELSE /\ workers' = Released(w)
                      /\ lock' = 0
                      /\ last' = Call("on_status_change", << >>, "none", "return")
                      /\ UNCHANGED <<ledger_validation_map, timer>>
         [] workers[w].pc = "read" ->
              /\ workers' = AddIterationRead(workers, w, cur_iteration)[2]
              /\ lock' = IF AddIterationRead(workers, w, cur_iteration)[1] = "none"
                         THEN lock ELSE 0
              /\ last' = Call("add_iteration", <<"worker">>,
                              AddIterationRead(workers, w, cur_iteration)[1], <<"read">>)
              /\ UNCHANGED <<advvars, ledger_validation_map, logging>>
         [] workers[w].pc = "write" ->
              /\ AddIterationWrite(workers[w].local, workers[w].belongs)
              /\ workers' = [workers EXCEPT ![w].pc = "branch", ![w].local = 0]
              /\ last' = Call("add_iteration", <<"worker">>, "none", <<"write">>)
              /\ UNCHANGED <<spec_checks, started, process, alive, containers,
                             server, result_logger, timer, orphans,
                             ledger_validation_map, lock, logging>>
         [] workers[w].pc = "branch" ->
              /\ AddIterationBranch
              /\ workers' = Released(w)
              /\ lock' = 0
              /\ last' = Call("add_iteration", <<"worker">>, "none", BranchCalls)
              /\ UNCHANGED <<ledger_validation_map, logging>>

(***************************************************************************)
(* NoneIteration                                                           *)
(***************************************************************************)
\* What the methods of NoneIteration leave alone: the threads, the lock and
\* everything of the spec checks.
NoneUnchanged ==
    /\ StrategyUnchanged
    /\ UNCHANGED <<confvars, lock, logging, workers, runners, advanced, started,
                   spec_checks, result_logger, orphans>>

\* set_validator_nodes, which NoneIteration inherits, called when the
\* interceptor that runs on its own announces the validators.
NoneSetValidatorNodes(n) ==
    /\ validator_nodes = 0
    /\ ledger_validation_map' = [i \in 0 .. (n - 1) |-> 1]
    /\ validator_nodes' = n
    /\ last' = Call("set_validator_nodes", <<n>>, "none", "None")
    /\ NoneUnchanged
    /\ UNCHANGED <<cur_iteration, timer, process, alive, containers, server>>

\* NoneIteration.set_log_dir: pass.
NoneSetLogDir ==
    /\ last' = Call("set_log_dir", << >>, "none", "None")
    /\ NoneUnchanged
    /\ UNCHANGED <<cur_iteration, timer, process, alive, containers, server,
                   validator_nodes, ledger_validation_map>>

\* NoneIteration.add_iteration: the timer is started, cur_iteration is
\* incremented.
NoneAddIteration ==
    /\ cur_iteration <= MaxIterations
    /\ timer' = StartedTimer(cur_iteration)
    /\ cur_iteration' = cur_iteration + 1
    /\ last' = Call("add_iteration", << >>, "none", <<"_start_timeout_timer">>)
    /\ NoneUnchanged
    /\ UNCHANGED <<process, alive, containers, server, validator_nodes,
                   ledger_validation_map>>

\* NoneIteration.on_status_change: pass.
NoneOnStatusChange(from_id, status) ==
    /\ server
    /\ last' = Call("on_status_change", <<from_id, status>>, "none", "None")
    /\ NoneUnchanged
    /\ UNCHANGED <<cur_iteration, timer, process, alive, containers, server,
                   validator_nodes, ledger_validation_map>>

\* The calls of NoneIteration._timeout_reached in their order.
NoneEndingCalls == <<"stop", "cleanup_docker_containers", "server.stop">>

\* TimeBasedIteration._timeout_reached run for a NoneIteration: add_iteration.
NoneTimeoutReachedAdvances ==
    /\ timer.armed
    /\ cur_iteration <= MaxIterations
    /\ timer' = StartedTimer(cur_iteration)
    /\ cur_iteration' = cur_iteration + 1
    /\ last' = Call("_timeout_reached", << >>, "none", <<"add_iteration">>)
    /\ NoneUnchanged
    /\ UNCHANGED <<process, alive, containers, server, validator_nodes,
                   ledger_validation_map>>

\* NoneIteration._timeout_reached: the timer expires, _stop_all and
\* _terminate_server.
NoneTimeoutReached ==
    /\ timer.armed
    /\ timer' = Cancelled(timer)
    /\ process' = Stopped(process)
    /\ alive' = AliveStopped
    /\ containers' = FALSE
    /\ server' = FALSE
    /\ last' = Call("_timeout_reached", << >>, "none", NoneEndingCalls)
    /\ NoneUnchanged
    /\ UNCHANGED <<cur_iteration, validator_nodes, ledger_validation_map>>

(***************************************************************************)
(* InterceptorManager                                                      *)
(***************************************************************************)
\* What the methods of the InterceptorManager leave alone.
ManagerUnchanged ==
    /\ StrategyUnchanged
    /\ UNCHANGED <<confvars, validator_nodes, ledger_validation_map, lock,
                   logging, workers, runners, cur_iteration, advanced,
                   spec_checks, server, result_logger, timer, orphans>>

\* The outcomes of process.wait(timeout=5.0): whether the subprocess has
\* exited within the timeout. One that has exited before does so at once.
Exits(p) == IF Running(p) THEN BOOLEAN ELSE {TRUE}

\* stop() without the except clause: the kill is never sent.
StopCallsNoKill(p, exits) ==
    IF p = "none" THEN << >> ELSE <<"terminate", "wait">>

\* The calls stop() makes on the subprocess, lines 72-78.
StopCalls(p, exits) ==
    IF p = "none"
    THEN << >>
    ELSE IF exits
         THEN <<"terminate", "wait">>
         ELSE <<"terminate", "wait", "kill">>

\* InterceptorManager.stop
Stop(exits) ==
    /\ process' = Stopped(process)
    /\ alive' = AliveStopped
    /\ last' = Call("stop", <<process, exits>>, "none", StopCalls(process, exits))
    /\ ManagerUnchanged
    /\ UNCHANGED <<started, containers>>

\* InterceptorManager.start_new: a subprocess is spawned and process refers
\* to it.
StartNew ==
    /\ started[cur_iteration] < MaxStarts
    /\ process' = "started"
    /\ alive' = alive + 1
    /\ started' = [started EXCEPT ![cur_iteration] = @ + 1]
    /\ last' = Call("start_new", <<process>>, "none", <<"Popen">>)
    /\ ManagerUnchanged
    /\ UNCHANGED containers

\* InterceptorManager.restart: stop, then start_new.
Restart(exits) ==
    /\ started[cur_iteration] < MaxStarts
    /\ process' = "started"
    /\ alive' = AliveStopped + 1
    /\ started' = [started EXCEPT ![cur_iteration] = @ + 1]
    /\ last' = Call("restart", <<process, exits>>, "none",
                    StopCalls(process, exits) \o <<"Popen">>)
    /\ ManagerUnchanged
    /\ UNCHANGED containers

\* InterceptorManager.cleanup_docker_containers
CleanupDockerContainers ==
    /\ containers' = FALSE
    /\ last' = Call("cleanup_docker_containers", << >>, "none", "None")
    /\ ManagerUnchanged
    /\ UNCHANGED <<process, alive, started>>

(***************************************************************************)
(* Specifications.                                                         *)
(***************************************************************************)
\* The strategies constructed: the defaults, and DummyStrategy's options.
Options == {<<TRUE, TRUE, TRUE>>, <<FALSE, FALSE, FALSE>>}

\* The pairs (src, dst) messages are memoised and packets are sent for: one
\* sender with two receivers and a pair of another sender.
MemoPairs == {e \in {<<0, 1>>, <<0, 2>>, <<1, 0>>} : e[1] \in Indices /\ e[2] \in Indices}

InitNetwork ==
    /\ validator_node_list = << >>
    /\ node_amount = 0
    /\ network_partitions = << >>
    /\ port_dict = << >>
    /\ communication_matrix = << >>
    /\ prev_message_action_matrix = << >>
    /\ subsets_dict = << >>
    /\ execution_log = << >>
    /\ handlers = [w \in PacketWorkers |-> IdleHandler]
    /\ last = Call("init", << >>, "none", "None")

Init ==
    /\ InitNetwork
    /\ InitIterationType(-1)
    /\ \E o \in Options :
          /\ auto_partition = o[1]
          /\ auto_parse_identical = o[2]
          /\ auto_parse_subsets = o[3]
    /\ keep_log = TRUE

\* The edges addressed one at a time: the pairs of the memoisation and every
\* self-edge.
EdgePairs == MemoPairs \cup {<<i, i>> : i \in Indices}

\* The pairs a message action is set for: every self-edge, and one edge.
SetPairs == {<<i, i>> : i \in Indices} \cup {e \in {<<0, 1>>} : e \in MemoPairs}

\* The partitions and single edges of the network, with every misuse of a
\* self-edge.
Next ==
    \/ \E nodes \in NodeLists : UpdateNetwork(nodes)
    \/ \E partitions \in PartitionInputs : PartitionNetwork(partitions)
    \/ \E e \in EdgePairs : ConnectNodes(e[1], e[2])
    \/ \E e \in EdgePairs : DisconnectNodes(e[1], e[2])
    \/ node_amount > 0 /\ ResetCommunications
    \/ \E e \in EdgePairs : CheckCommunication(e[1], e[2])
    \/ \E e \in SetPairs : \E d \in Data : \E dec \in Decisions(d) :
          SetMessageAction(e[1], e[2], d, dec[1], dec[2])

Spec == Init /\ [][Next]_vars

\* The memoisation of messages, with partition changes in between.
NextMemo ==
    \/ \E nodes \in NodeLists : UpdateNetwork(nodes)
    \/ \E partitions \in PacketPartitions : PartitionNetwork(partitions)
    \/ \E e \in MemoPairs : \E d \in Data : \E dec \in Decisions(d) :
          SetMessageAction(e[1], e[2], d, dec[1], dec[2])
    \/ \E e \in MemoPairs : \E d \in Data \cup {Empty} :
          CheckPreviousMessage(e[1], e[2], d)

MemoSpec == Init /\ [][NextMemo]_vars

\* The subsets installed: sender 0 broadcasts to every other node, as one
\* group or with receiver 1 in a group of its own.
Others(i) == SelectSeq([k \in 1 .. node_amount |-> k - 1], LAMBDA x : x # i)

SubsetInputs ==
    {[s \in {0} |-> Flat(Others(0))],
     [s \in {0} |-> Nested(<<<<1>>, Tail(Others(0))>>)]}

\* The ports a packet between the nodes of a pair carries: the ports the
\* nodes are installed under, or their peer ports.
PacketEnds ==
    UNION {{<<IndexPorts[e[1] + 1], IndexPorts[e[2] + 1]>>,
            <<PeerPort(validator_node_list[e[1] + 1]),
              PeerPort(validator_node_list[e[2] + 1])>>} : e \in MemoPairs}

\* Strategy.process_packet, with partitions and subsets set up in between.
NextPacket ==
    \/ \E nodes \in NodeLists : UpdateNetwork(nodes)
    \/ \E partitions \in PacketPartitions : PartitionNetwork(partitions)
    \/ node_amount > 0 /\ \E d \in SubsetInputs : SetSubsetsDict(d)
    \/ \E e \in PacketEnds : \E d \in Data : ProcessPacket(e[1], e[2], d)

PacketSpec == Init /\ [][NextPacket]_vars

\* The dictionaries handed to set_subsets_dict: none, the two of SubsetInputs,
\* a sender among its own receivers (flat and nested), and a sender that is
\* not installed.
SubsetDicts ==
    {<< >>} \cup SubsetInputs \cup
    {[s \in {0} |-> Flat(<<0, 1>>)],
     [s \in {0} |-> Nested(<<<<1>>, <<0>>>>)],
     [s \in {node_amount} |-> Flat(<<0>>)]}

\* The entries handed to set_subsets_dict_entry.
SubsetEntries ==
    {<<0, Flat(Others(0))>>, <<1, Nested(<<<<0>>>>)>>, <<1, Flat(<<1>>)>>,
     <<node_amount, Flat(<<0>>)>>}

\* The networks of a sender with two receivers, and with MaxReceivers.
SubsetNodeLists == {Ident(n) : n \in 3 .. (MaxReceivers + 1)}

\* The subsets of a sender, the decisions memoised for its pairs, and the
\* checks of its receivers.
NextSubset ==
    \/ \E nodes \in SubsetNodeLists : UpdateNetwork(nodes)
    \/ node_amount > 0 /\ \E d \in SubsetDicts : SetSubsetsDict(d)
    \/ node_amount > 0 /\ \E e \in SubsetEntries : SetSubsetsDictEntry(e[1], e[2])
    \/ \E e \in MemoPairs : \E d \in Data : \E dec \in Decisions(d) :
          SetMessageAction(e[1], e[2], d, dec[1], dec[2])
    \/ \E s \in {0, 1} \cap Indices : \E r \in Indices \ {s} : \E d \in Data \cup {Empty} :
          CheckSubsets(s, r, d)

SubsetSpec == Init /\ [][NextSubset]_vars

\* The strategies with a memoisation switched off.
InitDisabled ==
    /\ InitNetwork
    /\ InitIterationType(-1)
    /\ auto_partition = TRUE
    /\ \E o \in {<<FALSE, FALSE>>, <<TRUE, FALSE>>, <<FALSE, TRUE>>} :
          /\ auto_parse_identical = o[1]
          /\ auto_parse_subsets = o[2]
    /\ keep_log = TRUE

\* Every operation of the memoisations, and the packets processed.
NextDisabled ==
    \/ \E nodes \in NodeLists : UpdateNetwork(nodes)
    \/ \E e \in MemoPairs : \E d \in Data : \E dec \in Decisions(d) :
          SetMessageAction(e[1], e[2], d, dec[1], dec[2])
    \/ \E e \in MemoPairs : \E d \in Data : CheckPreviousMessage(e[1], e[2], d)
    \/ node_amount > 0 /\ \E d \in SubsetInputs \cup {<< >>} : SetSubsetsDict(d)
    \/ node_amount > 0 /\ \E e \in SubsetEntries : SetSubsetsDictEntry(e[1], e[2])
    \/ \E e \in MemoPairs : \E d \in Data : CheckSubsets(e[1], e[2], d)
    \/ \E e \in PacketEnds : \E d \in Data : ProcessPacket(e[1], e[2], d)

DisabledSpec == InitDisabled /\ [][NextDisabled]_vars

\* A time-based and a ledger-based run.
InitIteration ==
    /\ InitNetwork
    /\ auto_partition = TRUE
    /\ auto_parse_identical = TRUE
    /\ auto_parse_subsets = TRUE
    /\ keep_log = TRUE
    /\ \E max_seq \in {-1, TargetSeq} : InitIterationType(max_seq)

\* The main thread, the validators' status changes on the RPC workers, and
\* the timer threads, a step at a time.
NextIteration ==
    \/ SetLogDir
    \/ StartRun
    \/ SetValidatorNodes(IterationNodes)
    \/ \E r \in Runners : TimeoutReached(r)
    \/ \E r \in Runners : RunnerStep(r)
    \/ \E w \in Workers : \E from_id \in 0 .. (IterationNodes - 1) :
          \E status \in StatusChanges : OnStatusChange(w, from_id, status)
    \/ \E w \in Workers : WorkerStep(w)
    \/ LogLedgerResultDone

IterationSpec == InitIteration /\ [][NextIteration]_vars

\* The same run with the timer thread followed a call at a time inside
\* add_iteration, which it runs without the lock.
NextTimer ==
    \/ SetLogDir
    \/ StartRun
    \/ SetValidatorNodes(IterationNodes)
    \/ \E r \in Runners : TimeoutReached(r)
    \/ \E r \in Runners : RunnerCall(r)
    \/ \E w \in Workers : \E from_id \in 0 .. (IterationNodes - 1) :
          \E status \in StatusChanges : OnStatusChange(w, from_id, status)
    \/ \E w \in Workers : WorkerStep(w)
    \/ LogLedgerResultDone

TimerSpec == InitIteration /\ [][NextTimer]_vars

\* The runs in which no timer expires before its iteration is over: the
\* ledger-based iterations end by their target, the time-based ones by their
\* timer.
NextStatus ==
    \/ SetLogDir
    \/ StartRun
    \/ SetValidatorNodes(IterationNodes)
    \/ (max_ledger_seq = -1 /\ \E r \in Runners : TimeoutReached(r))
    \/ \E r \in Runners : RunnerStep(r)
    \/ \E w \in Workers : \E from_id \in 0 .. (IterationNodes - 1) :
          \E status \in StatusChanges : OnStatusChange(w, from_id, status)
    \/ \E w \in Workers : WorkerStep(w)
    \/ LogLedgerResultDone

StatusSpec == InitIteration /\ [][NextStatus]_vars

\* A NoneIteration: TimeBasedIteration.__init__ with the defaults.
InitNone ==
    /\ InitNetwork
    /\ auto_partition = TRUE
    /\ auto_parse_identical = TRUE
    /\ auto_parse_subsets = TRUE
    /\ keep_log = TRUE
    /\ InitIterationType(-1)

\* The controller on its own: the timer, and the status changes of an
\* interceptor that is run apart from it.
NextNone ==
    \/ NoneSetLogDir
    \/ \E n \in 1 .. IterationNodes : NoneSetValidatorNodes(n)
    \/ NoneAddIteration
    \/ \E from_id \in 0 .. (IterationNodes - 1) :
          \E status \in StatusChanges : NoneOnStatusChange(from_id, status)
    \/ NoneTimeoutReached

NoneSpec == InitNone /\ [][NextNone]_vars

\* No packet is being processed.
Quiet == \A w \in PacketWorkers : handlers[w].pc = "idle"

\* The ports of the packets that node 0 sends, the sender of SubsetInputs,
\* and the peer ports, which are not installed.
ConcurrentEnds ==
    {e \in PacketEnds : e[1] \in DOMAIN port_dict => port_dict[e[1]] = 0}

\* Two workers process the same packet at the same time, a call at a time;
\* the network, its partition, the subsets and the stored decisions change
\* between the packets only.
NextConcurrent ==
    \/ Quiet /\ \E nodes \in NodeLists : UpdateNetwork(nodes)
    \/ Quiet /\ \E partitions \in PacketPartitions : PartitionNetwork(partitions)
    \/ Quiet /\ node_amount > 0 /\ \E d \in SubsetInputs : SetSubsetsDict(d)
    \/ node_amount > 0 /\ \E e \in ConcurrentEnds : \E d \in Data :
          \E out \in HandlePacketOutcomes(d) : Dispatch(e[1], e[2], d, out)
    \/ \E w \in PacketWorkers : HandlerStep(w)
    \/ Acknowledge

ConcurrentSpec == Init /\ [][NextConcurrent]_vars

\* An InterceptorManager on its own: InterceptorManager.__init__.
InitManager ==
    /\ InitNetwork
    /\ auto_partition = TRUE
    /\ auto_parse_identical = TRUE
    /\ auto_parse_subsets = TRUE
    /\ keep_log = TRUE
    /\ InitIterationType(-1)

\* The methods of the manager in any order, and the interceptor that
\* announces its validators once it runs.
NextManager ==
    \/ \E exits \in Exits(process) : Stop(exits)
    \/ StartNew
    \/ \E exits \in Exits(process) : Restart(exits)
    \/ CleanupDockerContainers
    \/ SetValidatorNodes(IterationNodes)

ManagerSpec == InitManager /\ [][NextManager]_vars

\* The packet server, with and without its execution log.
InitServer ==
    /\ InitNetwork
    /\ InitIterationType(-1)
    /\ auto_partition = TRUE
    /\ auto_parse_identical = TRUE
    /\ auto_parse_subsets = TRUE
    /\ keep_log \in BOOLEAN

\* The requests of the interceptor: packets between the nodes of a pair,
\* carrying the ports the nodes are installed under.
Requests ==
    {[data |-> d, from_port |-> IndexPorts[e[1] + 1], to_port |-> IndexPorts[e[2] + 1]] :
        d \in Data, e \in MemoPairs}

NextServer ==
    \/ \E nodes \in NodeLists : UpdateNetwork(nodes)
    \/ \E partitions \in PacketPartitions : PartitionNetwork(partitions)
    \/ \E request \in Requests : SendPacket(request)

ServerSpec == InitServer /\ [][NextServer]_vars

(***************************************************************************)
(* Properties of the partitions and of the communication matrix.           *)
(***************************************************************************)
Count(seq, x) == Cardinality({k \in DOMAIN seq : seq[k] = x})

\* flat holds every installed identifier exactly once and nothing else.
IsPermutation(flat) ==
    /\ \A k \in DOMAIN flat : flat[k] \in Range(IndexPorts)
    /\ \A k \in DOMAIN IndexPorts : Count(flat, IndexPorts[k]) = 1

SharePart(parts, a, b) ==
    \E p \in DOMAIN parts : a \in Range(parts[p]) /\ b \in Range(parts[p])

\* C1: after partition_network(parts) with the flattening of parts a
\* permutation of the installed identifiers, the call has succeeded and for
\* all distinct identifiers a and b the matrix entry of (a, b) is true if and
\* only if some part holds both.
PartitionCoverage ==
    (last.op = "partition_network" /\ IsPermutation(Flatten(last.args[1])))
    => /\ last.err = "none"
       /\ \A a, b \in Range(IndexPorts) :
            a # b =>
              (communication_matrix[port_dict[a]][port_dict[b]]
                 <=> SharePart(last.args[1], a, b))

PartitionCoverageWitness ==
    /\ last.op = "partition_network"
    /\ last.err = "none"
    /\ node_amount = MaxNodes
    /\ Len(last.args[1]) = 2
    /\ \E i, j \in Indices : i # j /\ communication_matrix[i][j]
    /\ \E i, j \in Indices : i # j /\ ~communication_matrix[i][j]

\* C2: once update_network has installed a network, the diagonal of the
\* communication matrix is false.
DiagonalFalse ==
    \A i \in Indices : ~communication_matrix[i][i]

\* C3: the communication matrix is symmetric after any sequence of
\* partition_network, connect_nodes and disconnect_nodes.
Symmetry ==
    \A i, j \in Indices : communication_matrix[i][j] = communication_matrix[j][i]

SymmetryWitness ==
    /\ last.op = "disconnect_nodes"
    /\ last.err = "none"
    /\ Len(network_partitions) > 1
    /\ \E i, j \in Indices : i # j /\ communication_matrix[i][j]

\* C4: connect_nodes(i, i), disconnect_nodes(i, i), check_communication(i, i)
\* and set_message_action(i, i, ...) raise an error and leave the
\* communication matrix, the prev-action matrix and the subsets unchanged.
SelfEdgeOps ==
    {"connect_nodes", "disconnect_nodes", "check_communication", "set_message_action"}

SelfEdgeRaises ==
    [][(last'.op \in SelfEdgeOps /\ last'.args[1] = last'.args[2])
        => /\ last'.err = "ValueError"
           /\ UNCHANGED <<communication_matrix, prev_message_action_matrix,
                          subsets_dict>>]_vars

SelfEdgeWitness ==
    /\ last.op = "set_message_action"
    /\ last.err = "ValueError"
    /\ auto_parse_identical
    /\ \E i, j \in Indices : i # j /\ ~communication_matrix[i][j]

\* C5: partition_network(parts) raises whenever the flattening of parts is
\* not a permutation of the installed identifiers, and then leaves the
\* communication matrix and the stored partitions as they were.
InvalidPartitionRejected ==
    [][(last'.op = "partition_network" /\ ~IsPermutation(Flatten(last'.args[1])))
        => /\ last'.err = "ValueError"
           /\ UNCHANGED <<communication_matrix, network_partitions>>]_vars

\* A duplicated identifier: the set of the ports is right, the length is not.
InvalidPartitionWitness ==
    /\ last.op = "partition_network"
    /\ last.err = "ValueError"
    /\ Range(Flatten(last.args[1])) = Range(IndexPorts)
    /\ Len(network_partitions) > 1

(***************************************************************************)
(* Properties of the packet server.                                        *)
(***************************************************************************)
\* C6: when the strategy raises while SendPacket handles a packet, the
\* handler does not propagate the exception: it returns a PacketAck with the
\* request's data and the action MAX_U32.
StrategyFaultIsDrop ==
    (last.op = "SendPacket" /\ last.handled.raised)
        => /\ last.err = "none"
           /\ last.ret.data = last.args.data
           /\ last.ret.action = MAX_U32

\* C7: with auto_partition enabled, the action SendPacket returns for a
\* packet from src to dst is MAX_U32 when M[src][dst] is false and the
\* strategy's own action when M[src][dst] is true.
PartitionOverridesAction ==
    (last.op = "SendPacket" /\ last.err = "none" /\ auto_partition)
        => last.ret.action =
              IF communication_matrix[port_dict[last.args.from_port]]
                                     [port_dict[last.args.to_port]]
              THEN last.handled.action
              ELSE MAX_U32

\* The row that the step has appended to the execution log.
WrittenRow == execution_log'[Len(execution_log')]

\* C35: SendPacket answers every packet the strategy decides with a
\* PacketAck of exactly the strategy's data and action, whatever keep_log
\* is; without keep_log it writes no row, with keep_log it writes one row,
\* labelled Send for action 0, Drop for MAX_U32 and Delay in between.
KeepLogOnlySwitchesRows ==
    [][(last'.op = "SendPacket" /\ ~last'.handled.raised) =>
          /\ last'.err = "none"
          /\ last'.ret = [data |-> last'.handled.data,
                          action |-> last'.handled.action]
          /\ ~keep_log => execution_log' = execution_log
          /\ keep_log =>
                /\ Len(execution_log') = Len(execution_log) + 1
                /\ SubSeq(execution_log', 1, Len(execution_log)) = execution_log
                /\ last'.handled.action = 0 => WrittenRow[1] = "Send"
                /\ last'.handled.action = MAX_U32 => WrittenRow[1] = "Drop"
                /\ (0 < last'.handled.action /\ last'.handled.action < MAX_U32)
                      => WrittenRow[1] = "Delay"]_vars

(***************************************************************************)
(* Properties of the memoisation.                                          *)
(***************************************************************************)
Hit(mutated, action) == <<"none", <<TRUE, <<mutated, action>>>>>>
Miss(data) == <<"none", <<FALSE, <<data, 0>>>>>>

\* The step sets the message action of the pair e, or installs a network.
Replaces(e) ==
    \/ last'.op = "update_network"
    \/ /\ last'.op = "set_message_action"
       /\ last'.err = "none"
       /\ last'.args[1] = e[1]
       /\ last'.args[2] = e[2]

\* C8: after set_message_action(i, j, orig, mut, a) with i # j,
\* check_previous_message(i, j, orig) returns (true, (mut, a)), and every
\* step other than a set_message_action on (i, j) or an update_network
\* leaves what it returns as it is.
MemoisedUntilReplaced ==
    [][\A e \in MemoPairs : \A d \in Data :
          /\ \A dec \in Decisions(d) :
                last' = Call("set_message_action", <<e[1], e[2], d, dec[1], dec[2]>>,
                             "none", "None")
                   => CheckPreviousMessageResult(e[1], e[2], d)' = Hit(dec[1], dec[2])
          /\ (CheckPreviousMessageResult(e[1], e[2], d)[1] = "none"
                 /\ CheckPreviousMessageResult(e[1], e[2], d)[2][1]
                 /\ ~Replaces(e))
                => CheckPreviousMessageResult(e[1], e[2], d)'
                      = CheckPreviousMessageResult(e[1], e[2], d)]_vars

\* A hit on (0, 1) under a partition in several parts, with another pair
\* memoised since.
MemoisedWitness ==
    /\ last.op = "check_previous_message"
    /\ last.err = "none"
    /\ last.args[1] = 0 /\ last.args[2] = 1
    /\ last.ret = <<TRUE, <<Mutated, DelayMs>>>>
    /\ Len(network_partitions) > 1
    /\ node_amount > 2
    /\ prev_message_action_matrix[0][2].initial_message = last.args[3]
    /\ prev_message_action_matrix[0][2].action = MAX_U32

\* C9: check_previous_message(i, j, data) returns (false, (data, 0)) whenever
\* the stored initial message of (i, j) differs from data, and it does not
\* modify the prev-action matrix.
MissReturnsCallerData ==
    [][(last'.op = "check_previous_message" /\ last'.err = "none")
        => /\ UNCHANGED prev_message_action_matrix
           /\ prev_message_action_matrix[last'.args[1]][last'.args[2]].initial_message
                 # last'.args[3]
              => last'.ret = <<FALSE, <<last'.args[3], 0>>>>]_vars

\* A miss on (0, 1), for which nothing was ever stored, of the data that the
\* pair (0, 2) holds.
MissWitness ==
    /\ last.op = "check_previous_message"
    /\ last.err = "none"
    /\ last.args[1] = 0 /\ last.args[2] = 1
    /\ last.ret = <<FALSE, <<last.args[3], 0>>>>
    /\ node_amount > 2
    /\ prev_message_action_matrix[0][1] = InitialEntry
    /\ prev_message_action_matrix[0][2].initial_message = last.args[3]

\* C10: with auto_parse_identical enabled, a process_packet call that repeats
\* the (src, dst, data) of the process_packet call before it returns the
\* decision of that call without invoking handle_packet.
RepeatedPacketSameDecision ==
    [][(/\ last.op = "process_packet"
        /\ last.err = "none"
        /\ auto_parse_identical
        /\ ProcessPacket(last.args[1], last.args[2], last.args[3]))
        => /\ last'.err = "none"
           /\ last'.ret = last.ret
           /\ ~last'.handled.invoked]_vars

\* A repeated packet answered with the mutated payload and the delay that
\* handle_packet decided for the first one.
RepeatedPacketWitness ==
    /\ last.op = "process_packet"
    /\ last.err = "none"
    /\ auto_parse_identical
    /\ ~last.handled.invoked
    /\ last.ret = <<Mutated, DelayMs>>
    /\ prev_message_action_matrix[port_dict[last.args[1]]][port_dict[last.args[2]]]
          = [initial_message |-> last.args[3], final_message |-> Mutated,
             action |-> DelayMs]

\* C32: for a deterministic strategy, two workers that process packets with
\* the same (src, dst, data) at the same time end, under every interleaving
\* of their calls, with the decision and with the stored entry of the pair
\* that processing the packets one after the other gives.
ConcurrentAsSequential ==
    (\A w \in PacketWorkers : handlers[w].pc = "done") =>
        \A w \in PacketWorkers :
           /\ handlers[w].err = handlers[w].alone.err
           /\ handlers[w].ret = handlers[w].alone.ret
           /\ handlers[w].err # "KeyError" =>
                 prev_message_action_matrix[port_dict[handlers[w].from_port]]
                                           [port_dict[handlers[w].to_port]]
                    = handlers[w].alone.entry

\* Both workers have missed the stored decision, both have called
\* handle_packet and both have stored their decision.
ConcurrentWitness ==
    /\ \A w \in PacketWorkers :
          /\ handlers[w].pc = "done"
          /\ handlers[w].computed
          /\ handlers[w].err = "none"
          /\ handlers[w].ret = <<Mutated, DelayMs>>
    /\ auto_parse_identical
    /\ last.op = "process_packet"
    /\ last.args[2] = "set"

(***************************************************************************)
(* Properties of the subsets.                                              *)
(***************************************************************************)
\* The subsets registered under a sender: a flat entry is one subset.
RegisteredSubsets(sender) ==
    IF subsets_dict[sender].nested
    THEN subsets_dict[sender].items
    ELSE <<subsets_dict[sender].items>>

\* The members of S that hold data as the initial message of (sender, k).
Holders(sender, S, data) ==
    {k \in Range(S) : prev_message_action_matrix[sender][k].initial_message = data}

DecisionOf(sender, k) ==
    <<prev_message_action_matrix[sender][k].final_message,
      prev_message_action_matrix[sender][k].action>>

\* C11: for a sender s with a registered subset S and a receiver r in S,
\* check_subsets(s, r, data) returns (true, (final_k, action_k)) of a member
\* k of S that holds data as the initial message of (s, k), and
\* (false, (data, 0)) when no member of S holds it.
SubsetHit ==
    (last.op = "check_subsets" /\ last.err = "none")
        => LET s == last.args[1]
               r == last.args[2]
               data == last.args[3]
               subsets == RegisteredSubsets(s)
           IN \A g \in DOMAIN subsets :
                 (r \in Range(subsets[g])
                    /\ \A h \in DOMAIN subsets : r \in Range(subsets[h]) => h = g)
                 => IF Holders(s, subsets[g], data) = {}
                    THEN last.ret = <<FALSE, <<data, 0>>>>
                    ELSE \E k \in Holders(s, subsets[g], data) :
                            last.ret = <<TRUE, DecisionOf(s, k)>>

\* A flat subset: the receiver 2 answered with what was memoised for (0, 1).
SubsetHitWitness ==
    /\ last.op = "check_subsets"
    /\ last.err = "none"
    /\ last.args[1] = 0 /\ last.args[2] = 2
    /\ ~subsets_dict[0].nested
    /\ prev_message_action_matrix[0][2] = InitialEntry
    /\ last.ret = <<TRUE, <<Mutated, DelayMs>>>>

\* C12: with nested subsets registered for a sender, check_subsets(s, r,
\* data) returns a decision only from a member of r's own group that holds
\* data, never the one stored for a receiver of a different group.
NestedGroupsIndependent ==
    (/\ last.op = "check_subsets"
     /\ last.err = "none"
     /\ subsets_dict[last.args[1]].nested
     /\ Len(subsets_dict[last.args[1]].items) > 1)
        => LET s == last.args[1]
               r == last.args[2]
               data == last.args[3]
               own == {k \in Indices :
                         \E g \in DOMAIN subsets_dict[s].items :
                            /\ r \in Range(subsets_dict[s].items[g])
                            /\ k \in Range(subsets_dict[s].items[g])}
               matching == {k \in own :
                              prev_message_action_matrix[s][k].initial_message = data}
           IN /\ last.ret[1] <=> matching # {}
              /\ last.ret[1] => \E k \in matching : last.ret[2] = DecisionOf(s, k)

\* The groups [[1], [2, 3]] of sender 0: receiver 3 is answered with the
\* decision of (0, 2), while (0, 1) holds the same data with another one.
NestedGroupsWitness ==
    /\ last.op = "check_subsets"
    /\ last.err = "none"
    /\ last.args[1] = 0 /\ last.args[2] = 3
    /\ subsets_dict[0] = Nested(<<<<1>>, <<2, 3>>>>)
    /\ prev_message_action_matrix[0][1].initial_message = last.args[3]
    /\ prev_message_action_matrix[0][2].initial_message = last.args[3]
    /\ DecisionOf(0, 1) # DecisionOf(0, 2)
    /\ last.ret = <<TRUE, DecisionOf(0, 2)>>

\* C13: after set_subsets_dict and set_subsets_dict_entry calls that
\* succeed, the subsets dictionary has an entry for exactly the node indices
\* 0..n-1, an index that set_subsets_dict was not given has the empty list,
\* and no sender is among the receivers registered under it.
SubsetsWellFormed ==
    /\ DOMAIN subsets_dict = Indices
    /\ \A i \in Indices : \A g \in DOMAIN RegisteredSubsets(i) :
          i \notin Range(RegisteredSubsets(i)[g])
    /\ (last.op = "set_subsets_dict" /\ last.err = "none")
          => \A i \in Indices :
                subsets_dict[i] = IF i \in DOMAIN last.args[1]
                                  THEN last.args[1][i]
                                  ELSE NoSubsets

\* Entries set one by one on top of a dictionary that was installed.
SubsetsWellFormedWitness ==
    /\ last.op = "set_subsets_dict_entry"
    /\ last.err = "none"
    /\ subsets_dict[0].nested
    /\ subsets_dict[1] = Nested(<<<<0>>>>)
    /\ subsets_dict[2] = NoSubsets

(***************************************************************************)
(* Properties of the switches of the memoisations.                         *)
(***************************************************************************)
IdenticalOps == {"set_message_action", "check_previous_message"}
SubsetsOps == {"set_subsets_dict", "set_subsets_dict_entry", "check_subsets"}

\* C14: with auto_parse_identical disabled set_message_action and
\* check_previous_message raise, with auto_parse_subsets disabled
\* set_subsets_dict, set_subsets_dict_entry and check_subsets raise, none of
\* them changes the state, and with both disabled process_packet hands a
\* packet between installed ports to handle_packet and returns its decision.
DisabledRaises ==
    [][/\ (last'.op \in IdenticalOps /\ ~auto_parse_identical)
           => /\ last'.err = "ValueError"
              /\ UNCHANGED <<netvars, optvars, memovars>>
       /\ (last'.op \in SubsetsOps /\ ~auto_parse_subsets)
           => /\ last'.err = "ValueError"
              /\ UNCHANGED <<netvars, optvars, memovars>>
       /\ (/\ last'.op = "process_packet"
           /\ ~auto_parse_identical
           /\ ~auto_parse_subsets
           /\ last'.args[1] \in DOMAIN port_dict
           /\ last'.args[2] \in DOMAIN port_dict)
           => /\ last'.handled.invoked
              /\ UNCHANGED <<netvars, optvars, memovars>>
              /\ IF last'.handled.raised
                 THEN last'.err = "StrategyFault"
                 ELSE /\ last'.err = "none"
                      /\ last'.ret[1] = last'.handled.data]_vars

\* A packet processed with both memoisations disabled.
DisabledWitness ==
    /\ last.op = "process_packet"
    /\ last.err = "none"
    /\ ~auto_parse_identical
    /\ ~auto_parse_subsets
    /\ last.ret = <<Mutated, DelayMs>>

(***************************************************************************)
(* Properties of update_network.                                           *)
(***************************************************************************)
\* C15: update_network keys the port-to-index map by the peer port of a
\* node and gives each node the index of its position in the list.
PortDictByPeerPort ==
    DOMAIN port_dict = {PeerPort(validator_node_list[k]) : k \in 1 .. node_amount}
    /\ \A k \in 1 .. node_amount :
          port_dict[PeerPort(validator_node_list[k])] = k - 1

AdvancedOnce ==
    max_ledger_seq # -1 => \A k \in 1 .. MaxIterations : advanced[k] <= 1

\* on_status_change is at its test with every condition of an advance met.
ShouldAdvance ==
    /\ max_ledger_seq # -1
    /\ ledger_validation_map # << >>
    /\ \A i \in DOMAIN ledger_validation_map :
          ledger_validation_map[i] >= max_ledger_seq

InAddIteration(w) == workers[w].pc \in {"read", "write", "branch"}

\* C18: on_status_change advances the iteration if and only if, after the
\* event is applied, max_ledger_seq is not -1, the ledger validation map is
\* not empty and every node's seq is >= max_ledger_seq.
AdvanceIff ==
    [][\A w \in Workers :
          /\ (workers[w].pc = "applied" /\ workers'[w].pc # "applied")
                => (InAddIteration(w)' <=> ShouldAdvance)
          /\ (~InAddIteration(w) /\ InAddIteration(w)')
                => workers[w].pc = "applied"]_vars

\* The last node reaches the target in the first iteration of a
\* ledger-based run.
AdvanceWitness ==
    /\ last.op = "on_status_change"
    /\ last.ret = "advance"
    /\ max_ledger_seq = TargetSeq
    /\ cur_iteration = 1
    /\ \E w \in Workers : workers[w].pc = "read" /\ workers[w].ledgerSeq = TargetSeq

\* The worker that applies its event in this step.
Applies(w) == workers[w].pc = "wait" /\ workers'[w].pc = "applied"

IterationBound == cur_iteration <= MaxIterations + 1

\* C21: across a full run with max_iterations = N the interceptor is started
\* exactly once for each iteration 1..N, none skipped and none repeated, and
\* the run ends with the interceptor, the containers and the server stopped.
StartedOncePerIteration ==
    /\ \A k \in Iterations : started[k] <= 1
    /\ \A k \in 1 .. MaxIterations :
          cur_iteration > k => started[k] = 1

\* The threads inside the section that the mutex is to guard: the workers from
\* the update of the map to the end of add_iteration, the timer threads
\* inside add_iteration.
WorkersInside == {w \in Workers : workers[w].pc \in {"applied", "read", "write", "branch"}}
RunnersInside == {r \in Runners : runners[r].pc # "idle"}

\* C22: every update of the ledger validation map, every all-nodes-done test
\* and every add_iteration runs with the mutex held, so no two of them
\* overlap in time.
UnderOneMutex ==
    /\ Cardinality(WorkersInside) + Cardinality(RunnersInside) <= 1
    /\ \A r \in RunnersInside : lock # 0

\* C23: a status change delivered after the ledger validation map was cleared
\* for an advance and before the next validator list is installed returns
\* without an error and without any effect.
LateEventReturns ==
    (last.op = "on_status_change" /\ ledger_validation_map = << >>
        /\ validator_nodes # 0)
        => last.err = "none"

\* The timers that are armed and can still fire.
ArmedCount == (IF timer.armed THEN 1 ELSE 0) + Cardinality(orphans)

\* C24: at any time at most one timeout timer is armed and can still fire,
\* whatever the interleaving of the re-arming by a status change and the
\* re-arming by add_iteration.
OneTimerArmed == ArmedCount <= 1

\* C26: at most one interceptor subprocess is alive at any time, under any
\* interleaving of a timer-triggered advance with one triggered by a status
\* change.
OneInterceptor == alive <= 1

\* A thread runs lines 128-143 of add_iteration in this step.
LeavesBranch ==
    \/ \E w \in Workers : workers[w].pc = "branch" /\ workers'[w].pc # "branch"
    \/ \E r \in Runners : runners[r].pc = "branch" /\ runners'[r].pc # "branch"

\* C27: when add_iteration finds cur_iteration > max_iterations it stops the
\* interceptor and the validator containers, then aggregates the spec
\* checks, then stops the RPC server, in that order, and it starts no
\* interceptor, creates no result logger and arms no timer.
EndsInOrder ==
    [][(LeavesBranch /\ cur_iteration > MaxIterations)
          => /\ last'.ret = <<"stop", "cleanup_docker_containers",
                              "aggregate_spec_checks", "server.stop">>
             /\ ~Running(process')
             /\ alive' = (IF Running(process) THEN alive - 1 ELSE alive)
             /\ ~containers'
             /\ ~server'
             /\ UNCHANGED <<cur_iteration, started, result_logger, timer, orphans>>]_vars

\* The worker whose status change completes the last iteration of a
\* ledger-based run has ended the run.
EndsInOrderWitness ==
    /\ last.op = "add_iteration"
    /\ last.args = <<"worker">>
    /\ last.ret = EndingCalls
    /\ cur_iteration = MaxIterations + 1
    /\ started = [k \in Iterations |-> IF k \in 1 .. MaxIterations THEN 1 ELSE 0]
    /\ ~server
    /\ alive = 0

\* C28: the SpecChecker is run over iteration k exactly once for every k in
\* 1..max_iterations, never on the first advance and never over an iteration
\* number that was not executed.
SpecCheckedOnce ==
    /\ \A k \in Iterations : spec_checks[k] <= 1
    /\ \A k \in Iterations : k \notin 1 .. MaxIterations => spec_checks[k] = 0
    /\ \A k \in 1 .. MaxIterations : ~server => spec_checks[k] = 1

\* C29: in add_iteration the logging tasks of the iteration being closed are
\* joined before cur_iteration is incremented: no logging task runs at the
\* step that increments it, under any interleaving with concurrent status
\* changes.
LogsJoinedFirst ==
    [][cur_iteration' # cur_iteration => ~logging]_vars

EndedForGood ==
    [][~server => /\ ArmedTimers = {}
                  /\ alive = 0
                  /\ UNCHANGED <<cur_iteration, spec_checks, started>>]_vars

(***************************************************************************)
(* Properties of NoneIteration.                                            *)
(***************************************************************************)
\* C25: in None mode add_iteration only arms the timer and increments
\* cur_iteration and never starts or stops the interceptor; a status change
\* has no effect on any state; and the expiry of the timer stops the
\* interceptor, the validator containers and the RPC server instead of
\* starting another iteration.
NoneModeSteps ==
    [][/\ last'.op = "add_iteration"
            => /\ cur_iteration' = cur_iteration + 1
               /\ timer'.armed
               /\ UNCHANGED <<process, alive, started, containers, server,
                              result_logger, spec_checks, validator_nodes,
                              ledger_validation_map>>
       /\ last'.op = "on_status_change" => UNCHANGED <<netvars, memovars, itervars, packetvars>>
       /\ last'.op = "_timeout_reached"
            => /\ ~Running(process')
               /\ alive' = 0
               /\ ~containers'
               /\ ~server'
               /\ ArmedCount' = 0
               /\ UNCHANGED <<cur_iteration, started, result_logger, spec_checks>>]_vars

\* The timer of the one iteration has expired, with the validators announced.
NoneModeWitness ==
    /\ last.op = "_timeout_reached"
    /\ cur_iteration = 1
    /\ validator_nodes = IterationNodes
    /\ ~server
    /\ ~containers

(***************************************************************************)
(* Properties of the lock.                                                 *)
(***************************************************************************)
\* The calls that can block their caller: the join of the logging threads
\* is part of every branch of add_iteration, the others wait for a
\* subprocess, for the containers or for the server.
BlockingCalls == {"stop", "start_new", "cleanup_docker_containers", "server.stop"}

\* The step is one of add_iteration, called by a worker from
\* on_status_change, that makes a blocking call. (The timer threads never
\* hold the lock.)
MakesBlockingCall ==
    /\ last'.op = "add_iteration"
    /\ last'.args = <<"worker">>
    /\ \E k \in DOMAIN last'.ret : last'.ret[k] \in BlockingCalls

\* C31: the lock is held for constant-work updates only: no step that joins
\* the logging threads, waits for or spawns the interceptor, or stops the
\* containers or the server is made by the worker that holds the lock.
NoBlockingUnderLock ==
    [][MakesBlockingCall => lock = 0]_vars

(***************************************************************************)
(* Properties of the InterceptorManager.                                   *)
(***************************************************************************)
\* C33: stop() does nothing when no interceptor was ever started; otherwise
\* it sends the terminate signal and waits, and sends the kill signal if and
\* only if the subprocess has not exited within the grace period; after it
\* the subprocess that the manager refers to does not run.
StopEscalates ==
    [][last'.op = "stop" =>
          IF process = "none"
          THEN /\ last'.ret = << >>
               /\ UNCHANGED <<process, alive>>
          ELSE /\ SubSeq(last'.ret, 1, 2) = <<"terminate", "wait">>
               /\ Len(last'.ret) = IF last'.args[2] THEN 2 ELSE 3
               /\ ~last'.args[2] => last'.ret[3] = "kill"
               /\ ~Running(process')
               /\ alive' = IF Running(process) THEN alive - 1 ELSE alive]_vars

\* An interceptor that announced its validators has outlived the grace
\* period of stop() and was killed.
StopEscalatesWitness ==
    /\ last.op = "stop"
    /\ last.args = <<"announced", FALSE>>
    /\ last.ret = <<"terminate", "wait", "kill">>
    /\ process = "stopped"
    /\ alive = 0
====
